---------------------------- MODULE Spec2Model ----------------------------
(***************************************************************************)
(* The CAPE wallet bridge (zerok_lib/src/wallet/cape.rs): the operations   *)
(* sponsor, wrap and burn of CapeWallet over a CapeWalletBackend.          *)
(*                                                                         *)
(* Callers are tasks; each task calls bridge operations on one wallet.     *)
(* A wallet's state sits behind one exclusive lock (self.lock().await).    *)
(* The asset registry, the ERC20 balances and the ledger are global: they  *)
(* belong to the backend, which every wallet shares.                       *)
(***************************************************************************)
EXTENDS Integers, Sequences, FiniteSets, TLC

(***************************************************************************)
(* Bounds of the model.                                                    *)
(***************************************************************************)
\* Bridge operations called in one behaviour, over all tasks.
MaxCalls == 2
\* ERC20 balance every (address, token) account starts with.
InitErc20 == 1
\* CAPE balance the known user holds of the asset sponsored before the
\* behaviour starts, when there is one.
InitShielded == 1

(***************************************************************************)
(* Value domains.                                                          *)
(***************************************************************************)
Wallets == {"w1", "w2"}
Tasks == {"t1", "t2"}
NoTask == "none"

Erc20Codes == {"T1", "T2"}
\* EthereumAddr values, as their bytes (20 in the program, 2 here).
E1 == <<0, 1>>
E2 == <<1, 0>>
E3 == <<1, 1>>
EthAddrs == {E1, E2, E3}
Policies == {"P1", "P2", "Pbad"}
\* UserAddress values; U0 is an address the backend cannot resolve.
UserAddrs == {"U1", "U0"}
KnownUsers == {"U1"}
BuilderOutcomes == {"as_asked", "no_fee_output", "short_inputs", "extra_outputs"}
\* The (token code, sponsor address, policy) triples sponsor is called with.
\* E3 is only ever a burn's destination.
SponsorInputs == {<<"T1", E1, "P1">>, <<"T1", E1, "P2">>, <<"T1", E2, "P1">>,
                  <<"T2", E1, "P1">>, <<"T1", E1, "Pbad">>}

(***************************************************************************)
(* Pure functions of sponsor.                                              *)
(***************************************************************************)
\* erc20_asset_description(&erc20_code, &sponsor_addr): a description that
\* embeds both the token code and the sponsor's address.
erc20_asset_description(erc20_code, sponsor_addr) ==
    <<"ERC20", erc20_code, sponsor_addr>>

\* AssetCode::new_foreign(description): a collision-resistant hash of the
\* description, modelled as an injective tagging.
new_foreign(description) == [foreign |-> description]

\* AssetDefinition::new(code, policy): Err when the policy is invalid.
AssetDefinition_new(code, policy) ==
    IF policy = "Pbad"
    THEN [ok |-> FALSE, err |-> "CryptoError"]
    ELSE [ok |-> TRUE, val |-> [code |-> code, policy |-> policy]]

\* Lines 63-68 of sponsor: the definition derived from the call's arguments.
DeriveAssetAnyPolicy(erc20_code, sponsor_addr, aap_asset_policy) ==
    [ok |-> TRUE,
     val |-> [code |-> new_foreign(erc20_asset_description(erc20_code, sponsor_addr)),
              policy |-> aap_asset_policy]]

DeriveAssetIgnoringSponsor(erc20_code, sponsor_addr, aap_asset_policy) ==
    AssetDefinition_new(
        new_foreign(erc20_asset_description(erc20_code, E1)),
        aap_asset_policy)

DeriveAsset(erc20_code, sponsor_addr, aap_asset_policy) ==
    AssetDefinition_new(
        new_foreign(erc20_asset_description(erc20_code, sponsor_addr)),
        aap_asset_policy)

AssetCodes == {new_foreign(erc20_asset_description(in[1], in[2])) :
                   in \in SponsorInputs}
AssetDefs == {[code |-> c, policy |-> p] :
                  c \in AssetCodes, p \in Policies \ {"Pbad"}}
\* The assets wrap and burn are called with: those sponsor derives for
\* (T1, E1, P1) and for (T2, E1, P1).
AssetT1 == DeriveAsset("T1", E1, "P1").val
AssetT2 == DeriveAsset("T2", E1, "P1").val
\* The (source address, target asset, owner, amount) wrap is called with.
WrapInputs == {<<E1, AssetT1, "U1", 1>>, <<E1, AssetT1, "U1", 2>>,
               <<E1, AssetT1, "U0", 1>>, <<E1, AssetT2, "U1", 1>>,
               <<E1, AssetT2, "U0", 2>>}
\* The (account, destination, asset code, amount, fee) burn is called with.
BurnInputs == {<<"U1", E1, AssetT1.code, 1, 1>>, <<"U1", E2, AssetT1.code, 1, 1>>,
               <<"U1", E3, AssetT1.code, 2, 1>>, <<"U1", E1, AssetT2.code, 1, 1>>}


(***************************************************************************)
(* Results: Rust's Result<T, WalletError>, and a panic of a failed assert. *)
(***************************************************************************)
Ok(v) == [ok |-> TRUE, val |-> v]
Err(e) == [ok |-> FALSE, err |-> e]
Panic == [ok |-> FALSE, err |-> "panic"]
NoResult == [ok |-> FALSE, err |-> "pending"]
Unit == "unit"

(***************************************************************************)
(* CapeWalletBackend: the contract of the trait's methods.  The registry   *)
(* is a set of (asset, ERC20 code, sponsor) entries.                       *)
(***************************************************************************)
Registered(reg, asset) == \E e \in reg : e.asset = asset
EntryOf(reg, asset) == CHOOSE e \in reg : e.asset = asset

\* register_wrapped_asset: fails, changing nothing, when asset has an entry.
register_wrapped_asset_overwriting(reg, asset, erc20_code, sponsor) ==
    [res |-> Ok(Unit),
     registry |-> reg \cup {[asset |-> asset, erc20_code |-> erc20_code,
                             sponsor |-> sponsor]}]

register_wrapped_asset(reg, asset, erc20_code, sponsor) ==
    IF Registered(reg, asset)
    THEN [res |-> Err("RegistryConflict"), registry |-> reg]
    ELSE [res |-> Ok(Unit),
          registry |-> reg \cup {[asset |-> asset, erc20_code |-> erc20_code,
                                  sponsor |-> sponsor]}]

\* get_wrapped_erc20_code: the ERC20 code registered for asset.
get_wrapped_erc20_code(reg, asset) ==
    IF Registered(reg, asset)
    THEN Ok(EntryOf(reg, asset).erc20_code)
    ELSE Err("UnregisteredAsset")

\* WalletBackend::get_public_key: the key of a known address.
get_public_key(owner) ==
    IF owner \in KnownUsers THEN Ok(<<"pk", owner>>) ELSE Err("UnknownOwner")

PubKeys == {<<"pk", u>> : u \in KnownUsers}

\* wrap_erc20: debits ro.amount of erc20_code from src_addr and stages ro for
\* the next block; fails, changing nothing, when asset and code are not a
\* registered pair or the account holds less than ro.amount.
wrap_erc20(reg, bal, stg, erc20_code, src_addr, ro) ==
    IF ~ (Registered(reg, ro.asset_def)
          /\ EntryOf(reg, ro.asset_def).erc20_code = erc20_code)
    THEN [res |-> Err("UnregisteredAsset"), erc20_balance |-> bal, staged |-> stg]
    ELSE IF bal[<<src_addr, erc20_code>>] < ro.amount
    THEN [res |-> Err("InsufficientErc20"), erc20_balance |-> bal, staged |-> stg]
    ELSE [res |-> Ok(Unit),
          erc20_balance |-> [bal EXCEPT ![<<src_addr, erc20_code>>] = @ - ro.amount],
          staged |-> Append(stg, ro)]

\* RecordOpening::new(rng, amount, asset_def, pub_key, freeze_flag); the
\* blinding factor is what the wallet's random generator yields next.
RecordOpening_new(blind, amount, asset_def, pub_key, freeze_flag) ==
    [amount |-> amount, asset_def |-> asset_def, pub_key |-> pub_key,
     freeze_flag |-> freeze_flag, blind |-> blind]

(***************************************************************************)
(* State.                                                                  *)
(***************************************************************************)
VARIABLES
    registry,       \* the global ERC20 asset registry
    erc20_balance,  \* ERC20 balance of each (address, token code)
    staged,         \* wrapped records waiting for the next block
    shielded,       \* confirmed CAPE balance of each (public key, asset)
    ledger_txns,    \* submitted burn transactions waiting for the next block
    blocks,         \* blocks validated so far
    lock,           \* per wallet: the task holding the state lock, or NoTask
    rng,            \* per wallet: draws made from the wallet's generator
    on_hold,        \* per wallet: amount per asset held by pending burns
    txn_history,    \* per wallet: history entries of submitted transactions
    pc,             \* per task: where its call stands
    args,           \* per task: the arguments of its current or last call
    local,          \* per task: the local variables of its call
    result,         \* per task: what its last call returned
    invoked,        \* per task: the backend and wallet calls its call made
    sponsored,      \* per asset definition: sponsor calls that returned it
    calls,          \* bridge operations called so far
    wallet_of       \* per task: the wallet it calls

backend_vars == <<registry, erc20_balance, staged, shielded, ledger_txns, blocks>>
wallet_vars == <<lock, rng, on_hold, txn_history>>
task_vars == <<pc, args, local, result, invoked, calls, wallet_of>>
vars == <<backend_vars, wallet_vars, task_vars, sponsored>>

\* The wallet a task calls.
WalletOf(t) == wallet_of[t]

NoArgs == [op |-> "none"]
NoLocal == [at |-> "none"]

\* The two callers hold the same wallet or one wallet each.  The backend
\* is shared and outlives a wallet: a behaviour starts either
\* with an empty registry, or after Asset0 was sponsored for T1 by E1 and
\* InitShielded of it was wrapped for U1 and confirmed in a block.
Asset0 == AssetT1
Entry0 == [asset |-> Asset0, erc20_code |-> "T1", sponsor |-> E1]

Init ==
    /\ \E w \in Wallets : wallet_of = [t \in Tasks |-> IF t = "t1" THEN "w1" ELSE w]
    /\ \E used \in BOOLEAN :
        /\ registry = IF used THEN {Entry0} ELSE {}
        /\ shielded = [k \in PubKeys \X AssetDefs |->
                          IF used /\ k = <<get_public_key("U1").val, Asset0>>
                          THEN InitShielded ELSE 0]
    /\ erc20_balance = [a \in EthAddrs \X Erc20Codes |-> InitErc20]
    /\ staged = <<>>
    /\ ledger_txns = <<>>
    /\ blocks = 0
    /\ lock = [w \in Wallets |-> NoTask]
    /\ rng = [w \in Wallets |-> 0]
    /\ on_hold = [w \in Wallets |-> [a \in AssetDefs |-> 0]]
    /\ txn_history = [w \in Wallets |-> <<>>]
    /\ pc = [t \in Tasks |-> "idle"]
    /\ args = [t \in Tasks |-> NoArgs]
    /\ local = [t \in Tasks |-> NoLocal]
    /\ result = [t \in Tasks |-> NoResult]
    /\ invoked = [t \in Tasks |-> <<>>]
    /\ sponsored = [a \in AssetDefs |-> 0]
    /\ calls = 0

(***************************************************************************)
(* The wallet's state lock: Wallet::lock, an asynchronous mutex.  Its      *)
(* guard is dropped, and the lock released, when the operation returns.    *)
(***************************************************************************)
LockFree(t) == lock[WalletOf(t)] = NoTask
Holds(t) == lock[WalletOf(t)] = t
Acquire(t) == [lock EXCEPT ![WalletOf(t)] = t]
Release(t) == [lock EXCEPT ![WalletOf(t)] = IF @ = t THEN NoTask ELSE @]

\* A call begins: the future is created with its arguments.
Call(t, a, first) ==
    /\ pc[t] = "idle"
    /\ calls < MaxCalls
    /\ calls' = calls + 1
    /\ pc' = [pc EXCEPT ![t] = first]
    /\ args' = [args EXCEPT ![t] = a]
    /\ local' = [local EXCEPT ![t] = NoLocal]
    /\ result' = [result EXCEPT ![t] = NoResult]
    /\ invoked' = [invoked EXCEPT ![t] = <<>>]
    /\ UNCHANGED wallet_of

\* A call returns res.
Return(t, res) ==
    /\ pc' = [pc EXCEPT ![t] = "idle"]
    /\ result' = [result EXCEPT ![t] = res]
    /\ local' = [local EXCEPT ![t] = NoLocal]
    /\ UNCHANGED <<args, calls, wallet_of>>

\* A call moves on to its next step with new local variables.
Goto(t, next, loc) ==
    /\ pc' = [pc EXCEPT ![t] = next]
    /\ local' = [local EXCEPT ![t] = loc]
    /\ UNCHANGED <<args, result, calls, wallet_of>>

Invoke(t, what) == invoked' = [invoked EXCEPT ![t] = Append(@, what)]

(***************************************************************************)
(* CapeWallet::sponsor                                                     *)
(***************************************************************************)
CallSponsor(t) ==
    \E in \in SponsorInputs :
      LET c == in[1]  s == in[2]  p == in[3] IN
        /\ Call(t, [op |-> "sponsor", erc20_code |-> c, sponsor_addr |-> s,
                    aap_asset_policy |-> p], "sponsor_lock")
        /\ UNCHANGED <<backend_vars, wallet_vars, sponsored>>

\* let mut state = self.lock().await;
SponsorLockNotTaken(t) ==
    /\ pc[t] = "sponsor_lock"
    /\ Goto(t, "sponsor_new", NoLocal)
    /\ UNCHANGED <<backend_vars, wallet_vars, invoked, sponsored>>

SponsorLock(t) ==
    /\ pc[t] = "sponsor_lock"
    /\ LockFree(t)
    /\ lock' = Acquire(t)
    /\ Goto(t, "sponsor_new", NoLocal)
    /\ UNCHANGED <<backend_vars, rng, on_hold, txn_history, invoked, sponsored>>

\* The asset definition is derived; an invalid policy returns CryptoError.
SponsorNewKeepingLock(t) ==
    /\ pc[t] = "sponsor_new"
    /\ LET asset == DeriveAsset(args[t].erc20_code, args[t].sponsor_addr,
                                args[t].aap_asset_policy)
       IN  IF asset.ok
           THEN Goto(t, "sponsor_register", [at |-> "sponsor", asset |-> asset.val])
           ELSE Return(t, Err(asset.err))
    /\ UNCHANGED <<backend_vars, wallet_vars, invoked, sponsored>>

SponsorNew(t) ==
    /\ pc[t] = "sponsor_new"
    /\ LET asset == DeriveAsset(args[t].erc20_code, args[t].sponsor_addr,
                                args[t].aap_asset_policy)
       IN  IF asset.ok
           THEN /\ Goto(t, "sponsor_register", [at |-> "sponsor", asset |-> asset.val])
                /\ UNCHANGED lock
           ELSE /\ Return(t, Err(asset.err))
                /\ lock' = Release(t)
    /\ UNCHANGED <<backend_vars, rng, on_hold, txn_history, invoked, sponsored>>

\* Lines 70-72: the registration sponsor asks the backend for.
SponsorRegisterCallWrongCode(t) ==
    register_wrapped_asset(registry, local[t].asset, "T1", args[t].sponsor_addr)

SponsorRegisterCallReplacing(t) ==
    register_wrapped_asset({}, local[t].asset, args[t].erc20_code,
                           args[t].sponsor_addr)

SponsorRegisterCall(t) ==
    register_wrapped_asset(registry, local[t].asset, args[t].erc20_code,
                           args[t].sponsor_addr)

\* Lines 73-75: what sponsor returns once the backend has answered reg_res.
SponsorResultIgnoringError(reg_res, asset) == Ok(asset)

SponsorResultOtherError(reg_res, asset) ==
    IF reg_res.ok THEN Ok(asset) ELSE Err("CryptoError")

SponsorResult(reg_res, asset) == IF reg_res.ok THEN Ok(asset) ELSE reg_res

\* state.backend_mut().register_wrapped_asset(..).await?; Ok(asset)
SponsorRegister(t) ==
    /\ pc[t] = "sponsor_register"
    /\ LET asset == local[t].asset
           r == SponsorRegisterCall(t)
           res == SponsorResult(r.res, asset)
       IN  /\ registry' = r.registry
           /\ Invoke(t, [fn |-> "register_wrapped_asset", asset |-> asset,
                         erc20_code |-> args[t].erc20_code,
                         sponsor |-> args[t].sponsor_addr, res |-> r.res])
           /\ Return(t, res)
           /\ sponsored' = IF res.ok
                           THEN [sponsored EXCEPT ![res.val] = @ + 1]
                           ELSE sponsored
    /\ lock' = Release(t)
    /\ UNCHANGED <<erc20_balance, staged, shielded, ledger_txns, blocks,
                   rng, on_hold, txn_history>>

Sponsor(t) == CallSponsor(t) \/ SponsorLock(t) \/ SponsorNew(t) \/ SponsorRegister(t)

(***************************************************************************)
(* CapeWallet::wrap                                                        *)
(***************************************************************************)
CallWrap(t) ==
    \E in \in WrapInputs :
      LET src == in[1]  a == in[2]  o == in[3]  n == in[4] IN
        /\ Call(t, [op |-> "wrap", src_addr |-> src, aap_asset |-> a,
                    owner |-> o, amount |-> n], "wrap_lock")
        /\ UNCHANGED <<backend_vars, wallet_vars, sponsored>>

\* let mut state = self.lock().await;
WrapLockNotWaiting(t) ==
    /\ pc[t] = "wrap_lock"
    /\ lock' = Acquire(t)
    /\ Goto(t, "wrap_get_code", NoLocal)
    /\ UNCHANGED <<backend_vars, rng, on_hold, txn_history, invoked, sponsored>>

WrapLock(t) ==
    /\ pc[t] = "wrap_lock"
    /\ LockFree(t)
    /\ lock' = Acquire(t)
    /\ Goto(t, "wrap_get_code", NoLocal)
    /\ UNCHANGED <<backend_vars, rng, on_hold, txn_history, invoked, sponsored>>

\* let erc20_code = state.backend().get_wrapped_erc20_code(&aap_asset).await?;
WrapGetCodeIgnoringError(t) ==
    /\ pc[t] = "wrap_get_code"
    /\ LET r == get_wrapped_erc20_code(registry, args[t].aap_asset)
       IN  /\ Invoke(t, [fn |-> "get_wrapped_erc20_code",
                         asset |-> args[t].aap_asset, res |-> r])
           /\ Goto(t, "wrap_get_key",
                   [at |-> "wrap", erc20_code |-> IF r.ok THEN r.val ELSE "T1"])
    /\ UNCHANGED <<backend_vars, wallet_vars, sponsored>>

WrapGetCode(t) ==
    /\ pc[t] = "wrap_get_code"
    /\ LET r == get_wrapped_erc20_code(registry, args[t].aap_asset)
       IN  /\ Invoke(t, [fn |-> "get_wrapped_erc20_code",
                         asset |-> args[t].aap_asset, res |-> r])
           /\ IF r.ok
              THEN /\ Goto(t, "wrap_get_key", [at |-> "wrap", erc20_code |-> r.val])
                   /\ UNCHANGED lock
              ELSE /\ Return(t, r)
                   /\ lock' = Release(t)
    /\ UNCHANGED <<backend_vars, rng, on_hold, txn_history, sponsored>>

\* let pub_key = state.backend().get_public_key(&owner).await?;
WrapGetKey(t) ==
    /\ pc[t] = "wrap_get_key"
    /\ LET r == get_public_key(args[t].owner)
       IN  /\ Invoke(t, [fn |-> "get_public_key", owner |-> args[t].owner, res |-> r])
           /\ IF r.ok
              THEN /\ Goto(t, "wrap_erc20",
                           [at |-> "wrap", erc20_code |-> local[t].erc20_code,
                            pub_key |-> r.val])
                   /\ UNCHANGED lock
              ELSE /\ Return(t, r)
                   /\ lock' = Release(t)
    /\ UNCHANGED <<backend_vars, rng, on_hold, txn_history, sponsored>>

\* The record opening of lines 93-99.
WrapRecordOfOne(t) ==
    RecordOpening_new(<<WalletOf(t), rng[WalletOf(t)]>>, 1,
                      args[t].aap_asset, local[t].pub_key, "Unfrozen")

WrapRecordFrozen(t) ==
    RecordOpening_new(<<WalletOf(t), rng[WalletOf(t)]>>, args[t].amount,
                      args[t].aap_asset, local[t].pub_key, "Frozen")

WrapRecord(t) ==
    RecordOpening_new(<<WalletOf(t), rng[WalletOf(t)]>>, args[t].amount,
                      args[t].aap_asset, local[t].pub_key, "Unfrozen")

\* state.backend_mut().wrap_erc20(erc20_code, src_addr, ro).await
WrapErc20(t) ==
    /\ pc[t] = "wrap_erc20"
    /\ LET ro == WrapRecord(t)
           r == wrap_erc20(registry, erc20_balance, staged,
                           local[t].erc20_code, args[t].src_addr, ro)
       IN  /\ erc20_balance' = r.erc20_balance
           /\ staged' = r.staged
           /\ Invoke(t, [fn |-> "wrap_erc20", erc20_code |-> local[t].erc20_code,
                         src_addr |-> args[t].src_addr, ro |-> ro, res |-> r.res])
           /\ Return(t, r.res)
    /\ rng' = [rng EXCEPT ![WalletOf(t)] = @ + 1]
    /\ lock' = Release(t)
    /\ UNCHANGED <<registry, shielded, ledger_txns, blocks, on_hold, txn_history,
                   sponsored>>

Wrap(t) == CallWrap(t) \/ WrapLock(t) \/ WrapGetCode(t) \/ WrapGetKey(t) \/ WrapErc20(t)

(***************************************************************************)
(* The generic wallet the burn is built on: build_transfer, generate_memos *)
(* and submit.  Each locks the wallet's state for its own duration.        *)
(***************************************************************************)
Some(v) == [some |-> TRUE, val |-> v]
None == [some |-> FALSE]

\* The fixed marker that opens a burn note's bound data.
CAPE_BURN_MAGIC_BYTES == <<66, 85, 82, 78>>

\* EthereumAddr::as_bytes
as_bytes(addr) == addr

\* The asset definition of the native asset, which fees are paid in.
NativeAsset == [code |-> [native |-> TRUE], policy |-> "P1"]

\* What account can spend of asset definition d through wallet w.
Available(w, account, d) ==
    shielded[<<get_public_key(account).val, d>>] - on_hold[w][d]

\* The numbers of inputs and outputs of the note the builder returns when
\* asked for shape: the shape asked for, unless the builder is defective.
BuiltShape(shape, outcome) ==
    CASE outcome = "short_inputs" -> <<shape[1] - 1, shape[2]>>
      [] outcome = "extra_outputs" -> <<shape[1], shape[2] + 1>>
      [] OTHER -> shape

\* build_transfer(account, asset, receivers, fee, bound_data, xfr_size):
\* a transfer of asset from account to the receivers, spending records of
\* one definition d of that code; fails when the account cannot pay.
build_transfer(w, account, asset, receivers, fee, bound_data, xfr_size, d, outcome) ==
    IF d.code # asset \/ ~ get_public_key(account).ok
       \/ Available(w, account, d) < receivers[1][2]
    THEN Err("InsufficientBalance")
    ELSE LET shape == BuiltShape(xfr_size.val, outcome)
             payout == RecordOpening_new(<<"xfr", 1>>, receivers[1][2], d,
                           get_public_key(receivers[1][1]).val, "Unfrozen")
             change == RecordOpening_new(<<"xfr", 2>>, 0, NativeAsset,
                           get_public_key(account).val, "Unfrozen")
         IN  Ok([note |-> [inputs_nullifiers |->
                               [i \in 1..shape[1] |-> <<"nullifier", account, i>>],
                           output_commitments |->
                               [i \in 1..shape[2] |-> <<"commitment", account, i>>],
                           aux_proof_bound_data |-> bound_data],
                 fee_output |-> IF outcome = "no_fee_output" THEN None
                                ELSE Some(change),
                 history |-> [kind |-> "Send", asset |-> asset,
                              receivers |-> receivers],
                 owner_address |-> account,
                 sig_keypair |-> <<"sig_keypair", account>>,
                 inputs |-> <<d>>,
                 outputs |-> <<payout>>])

\* generate_memos(records, sig_keypair): one memo per record, and their
\* signature; the memo encryption may fail.
generate_memos(records, sig_keypair, fails) ==
    IF fails THEN Err("CryptoError")
    ELSE Ok([memos |-> [i \in 1..Len(records) |-> <<"memo", records[i]>>],
             sig |-> <<"sig", sig_keypair>>])

\* The destination a burn note's bound data names.
BurnDestination(bound_data) ==
    SubSeq(bound_data, Len(CAPE_BURN_MAGIC_BYTES) + 1, Len(bound_data))

(***************************************************************************)
(* CapeWallet::burn                                                        *)
(***************************************************************************)
CallBurn(t) ==
    \E in \in BurnInputs :
      LET acct == in[1]  dst == in[2]  a == in[3]  n == in[4]  f == in[5] IN
        /\ Call(t, [op |-> "burn", account |-> acct, dst_addr |-> dst,
                    aap_asset |-> a, amount |-> n, fee |-> f], "burn_build")
        /\ UNCHANGED <<backend_vars, wallet_vars, sponsored>>

\* Lines 118-123: the magic burn bytes followed by the destination address.
BoundDataCut(dst_addr) ==
    CAPE_BURN_MAGIC_BYTES \o SubSeq(as_bytes(dst_addr), 1, Len(as_bytes(dst_addr)) - 1)

BoundData(dst_addr) == CAPE_BURN_MAGIC_BYTES \o as_bytes(dst_addr)

\* The shape burn asks the builder for.
BurnShape == Some(<<2, 2>>)

\* self.build_transfer(account, aap_asset, &[(account.clone(), amount)], fee,
\*                     bound_data, Some((2, 2))).await?
BurnBuild(t) ==
    /\ pc[t] = "burn_build"
    /\ LockFree(t)
    /\ \E d \in {a \in AssetDefs : a.code = args[t].aap_asset},
          outcome \in BuilderOutcomes :
         LET bound_data == BoundData(args[t].dst_addr)
             receivers == <<<<args[t].account, args[t].amount>>>>
             r == build_transfer(WalletOf(t), args[t].account, args[t].aap_asset,
                                 receivers, args[t].fee, bound_data, BurnShape,
                                 d, outcome)
         IN  /\ r.ok \/ (outcome = "as_asked"
                         /\ \A e \in AssetDefs :
                              ~ build_transfer(WalletOf(t), args[t].account,
                                    args[t].aap_asset, receivers, args[t].fee,
                                    bound_data, BurnShape, e, outcome).ok)
             /\ Invoke(t, [fn |-> "build_transfer", account |-> args[t].account,
                           asset |-> args[t].aap_asset, receivers |-> receivers,
                           fee |-> args[t].fee, bound_data |-> bound_data,
                           xfr_size |-> BurnShape, res |-> r.ok])
             /\ IF r.ok
                THEN Goto(t, "burn_memos", [at |-> "burn", xfr_info |-> r.val])
                ELSE Return(t, r)
    /\ UNCHANGED <<backend_vars, wallet_vars, sponsored>>

\* vec![xfr_info.fee_output.unwrap()]: the records memos are generated for.
MemoRecordsWithPayout(xfr_info) == <<xfr_info.fee_output.val>> \o xfr_info.outputs

MemoRecords(xfr_info) == <<xfr_info.fee_output.val>>

\* assert!(xfr_info.fee_output.is_some());
\* self.generate_memos(vec![xfr_info.fee_output.unwrap()], &xfr_info.sig_keypair).await?
BurnMemos(t) ==
    /\ pc[t] = "burn_memos"
    /\ LET xfr_info == local[t].xfr_info
       IN  IF ~ xfr_info.fee_output.some
           THEN /\ Return(t, Panic)
                /\ UNCHANGED invoked
           ELSE /\ LockFree(t)
                /\ \E fails \in BOOLEAN :
                     LET records == MemoRecords(xfr_info)
                         r == generate_memos(records, xfr_info.sig_keypair, fails)
                     IN  /\ Invoke(t, [fn |-> "generate_memos", records |-> records,
                                       res |-> r.ok])
                         /\ IF r.ok
                            THEN Goto(t, "burn_submit",
                                      [at |-> "burn", xfr_info |-> xfr_info,
                                       memos |-> r.val.memos, sig |-> r.val.sig])
                            ELSE Return(t, r)
    /\ UNCHANGED <<backend_vars, wallet_vars, sponsored>>

\* Lines 144-153: the transaction info assembled from the built transfer.
BurnTxnInfo(xfr_info, memos, sig) ==
    [account |-> xfr_info.owner_address, memos |-> memos, sig |-> sig,
     freeze_outputs |-> <<>>, history |-> Some(xfr_info.history), uid |-> None,
     inputs |-> xfr_info.inputs, outputs |-> xfr_info.outputs]

\* Lines 156-158: the history entry is marked as a burn.
MarkBurnSkipped(txn_info) == txn_info

MarkBurn(txn_info) ==
    IF txn_info.history.some
    THEN [txn_info EXCEPT !.history = Some([@.val EXCEPT !.kind = "Burn"])]
    ELSE txn_info

\* Lines 154-155: the shape asserted before the note is submitted.
ShapeAssertedInputsOnly(note) ==
    Len(note.inputs_nullifiers) = 2

ShapeAsserted(note) ==
    /\ Len(note.inputs_nullifiers) = 2
    /\ Len(note.output_commitments) = 2

\* Lines 160-163: the transition submitted.
BurnTransitionUntagged(xfr_info, txn_info) ==
    [kind |-> "Transfer", xfr |-> xfr_info.note, ro |-> txn_info.outputs[1]]

BurnTransition(xfr_info, txn_info) ==
    [kind |-> "Burn", xfr |-> xfr_info.note, ro |-> txn_info.outputs[1]]

\* submit(txn, txn_info): the transaction goes to the ledger, its inputs are
\* put on hold and its history entry is recorded; fails, changing nothing,
\* when the inputs are no longer available.
submit(w, txn, txn_info) ==
    LET d == txn.ro.asset_def
        n == txn.ro.amount
    IN  IF Available(w, txn_info.account, d) < n
        THEN [res |-> Err("SubmitRejected"), ledger_txns |-> ledger_txns,
              on_hold |-> on_hold, txn_history |-> txn_history]
        ELSE [res |-> Ok([txn |-> txn, uid |-> <<w, Len(txn_history[w]) + 1>>]),
              ledger_txns |-> Append(ledger_txns,
                                     [wallet |-> w, txn |-> txn,
                                      account |-> txn_info.account]),
              on_hold |-> [on_hold EXCEPT ![w][d] = @ + n],
              txn_history |-> [txn_history EXCEPT ![w] =
                                  Append(@, txn_info.history.val)]]

\* Lines 144-164.
BurnSubmit(t) ==
    /\ pc[t] = "burn_submit"
    /\ LET xfr_info == local[t].xfr_info
           txn_info == MarkBurn(BurnTxnInfo(xfr_info, local[t].memos, local[t].sig))
           txn == BurnTransition(xfr_info, txn_info)
           r == submit(WalletOf(t), txn, txn_info)
       IN  IF ~ ShapeAsserted(xfr_info.note)
           THEN /\ Return(t, Panic)
                /\ UNCHANGED <<ledger_txns, on_hold, txn_history, invoked>>
           ELSE /\ LockFree(t)
                /\ ledger_txns' = r.ledger_txns
                /\ on_hold' = r.on_hold
                /\ txn_history' = r.txn_history
                /\ Invoke(t, [fn |-> "submit", txn |-> txn, txn_info |-> txn_info,
                              res |-> r.res.ok])
                /\ Return(t, r.res)
    /\ UNCHANGED <<registry, erc20_balance, staged, shielded, blocks, lock, rng,
                   sponsored>>

Burn(t) == CallBurn(t) \/ BurnBuild(t) \/ BurnMemos(t) \/ BurnSubmit(t)

(***************************************************************************)
(* CapeWallet::approved_assets                                             *)
(***************************************************************************)
CallApprovedAssets(t) ==
    /\ Call(t, [op |-> "approved_assets"], "approved_assets")
    /\ UNCHANGED <<backend_vars, wallet_vars, sponsored>>

\* unimplemented!()
ApprovedAssetsBody(t) ==
    /\ pc[t] = "approved_assets"
    /\ Return(t, Panic)
    /\ UNCHANGED <<backend_vars, wallet_vars, invoked, sponsored>>

ApprovedAssets(t) == CallApprovedAssets(t) \/ ApprovedAssetsBody(t)

(***************************************************************************)
(* The ledger: the contract validates the next block.  The staged wraps    *)
(* become CAPE records of their owners; the submitted burns are spent and  *)
(* paid out in the ERC20 token to the address their bound data names.      *)
(***************************************************************************)
RECURSIVE Credit(_, _)
Credit(bal, recs) ==
    IF recs = <<>> THEN bal
    ELSE Credit([bal EXCEPT ![<<recs[1].pub_key, recs[1].asset_def>>] =
                     @ + recs[1].amount], Tail(recs))

RECURSIVE Spend(_, _)
Spend(bal, txns) ==
    IF txns = <<>> THEN bal
    ELSE Spend([bal EXCEPT ![<<get_public_key(txns[1].account).val,
                              txns[1].txn.ro.asset_def>>] =
                    @ - txns[1].txn.ro.amount], Tail(txns))

RECURSIVE Unhold(_, _)
Unhold(held, txns) ==
    IF txns = <<>> THEN held
    ELSE Unhold([held EXCEPT ![txns[1].wallet][txns[1].txn.ro.asset_def] =
                     @ - txns[1].txn.ro.amount], Tail(txns))

RECURSIVE PayOut(_, _)
PayOut(bal, txns) ==
    IF txns = <<>> THEN bal
    ELSE LET ro == txns[1].txn.ro
             dst == BurnDestination(txns[1].txn.xfr.aux_proof_bound_data)
             code == EntryOf(registry, ro.asset_def).erc20_code
         IN  PayOut([bal EXCEPT ![<<dst, code>>] = @ + ro.amount], Tail(txns))

ConfirmBlock ==
    /\ staged # <<>> \/ ledger_txns # <<>>
    /\ blocks' = blocks + 1
    /\ shielded' = Spend(Credit(shielded, staged), ledger_txns)
    /\ erc20_balance' = PayOut(erc20_balance, ledger_txns)
    /\ on_hold' = Unhold(on_hold, ledger_txns)
    /\ staged' = <<>>
    /\ ledger_txns' = <<>>
    /\ UNCHANGED <<registry, lock, rng, txn_history, task_vars, sponsored>>

Next ==
    \/ \E t \in Tasks : Sponsor(t) \/ Wrap(t) \/ Burn(t) \/ ApprovedAssets(t)
    \/ ConfirmBlock

Spec == Init /\ [][Next]_vars

\* Scheduling: a task whose call has begun is polled until it returns; the
\* asynchronous mutex wakes a task that waits for the lock when it is free.
Fairness ==
    \A t \in Tasks :
        /\ WF_vars(SponsorNew(t) \/ SponsorRegister(t) \/ WrapGetCode(t)
                   \/ WrapGetKey(t) \/ WrapErc20(t))
        /\ SF_vars(SponsorLock(t) \/ WrapLock(t))

FairSpec == Spec /\ Fairness

(***************************************************************************)
(* Abandonment: the caller drops the future of a call that is suspended at *)
(* one of its awaits.  The call's local variables are dropped with it, the *)
(* lock guard among them; the awaited call has not taken effect.           *)
(***************************************************************************)
\* The awaits of sponsor (lines 61, 73), wrap (88, 90, 91, 104) and burn
\* (136, 142, 164).
SuspensionPoints == {"sponsor_lock", "sponsor_register",
                     "wrap_lock", "wrap_get_code", "wrap_get_key", "wrap_erc20",
                     "burn_build", "burn_memos", "burn_submit"}

\* What stands for the result of a call abandoned at step at.
Abandoned(at) == [ok |-> FALSE, err |-> "abandoned", at |-> at]

AbandonKeepingLock(t) ==
    /\ pc[t] \in SuspensionPoints
    /\ Return(t, Abandoned(pc[t]))
    /\ UNCHANGED <<backend_vars, wallet_vars, invoked, sponsored>>

Abandon(t) ==
    /\ pc[t] \in SuspensionPoints
    /\ Return(t, Abandoned(pc[t]))
    /\ lock' = Release(t)
    /\ UNCHANGED <<backend_vars, rng, on_hold, txn_history, invoked, sponsored>>

AbandonNext == Next \/ \E t \in Tasks : Abandon(t)

AbandonSpec == Init /\ [][AbandonNext]_vars


(***************************************************************************)
(* Properties.                                                             *)
(***************************************************************************)
\* The token code and the sponsor an asset definition was derived from.
TokenOf(a) == a.code.foreign[2]
SponsorOf(a) == a.code.foreign[3]

\* Task t's last call was op and has returned.
Returned(t, op) == pc[t] = "idle" /\ args[t].op = op
\* Task t's current or last call invoked fn.
Invoked(t, fn) == \E i \in 1..Len(invoked[t]) : invoked[t][i].fn = fn
\* Task t returns from step at in this step.
Returns(t, at) == pc[t] = at /\ pc'[t] = "idle"

\* C1: the registry never holds two entries for one asset definition, and a
\* registration of a definition that has an entry is answered with an error
\* and leaves the registry as it is.
C1_AtMostOneEntry ==
    \A e1, e2 \in registry : e1.asset = e2.asset => e1 = e2
C1_DuplicateFails ==
    \A t \in Tasks :
        Returns(t, "sponsor_register") /\ Registered(registry, local[t].asset)
        => /\ registry' = registry
           /\ invoked'[t][Len(invoked'[t])].res = Err("RegistryConflict")
C1_OneEntryPerAsset == [] C1_AtMostOneEntry /\ [][C1_DuplicateFails]_vars

\* A registration was refused for a definition that has its entry.
C1_Witness ==
    \E t \in Tasks :
        /\ Returned(t, "sponsor")
        /\ Invoked(t, "register_wrapped_asset")
        /\ invoked[t][1].res = Err("RegistryConflict")
        /\ Registered(registry, invoked[t][1].asset)

\* C2 as stated: of the sponsor calls with one (token code, sponsor address)
\* pair, whatever their policies, exactly one succeeds.
C2_OncePerPair ==
    \A a1, a2 \in AssetDefs :
        a1.code = a2.code /\ sponsored[a1] > 0 /\ sponsored[a2] > 0 => a1 = a2

\* C2 amended: of the sponsor calls with one (token code, sponsor address,
\* valid policy) triple exactly one succeeds, the one that registers first;
\* it returns the derived definition, every other fails with the registry's
\* conflict error, and the registry maps the definition to the pairing of
\* the call that succeeded.
C2_FirstEntryStays ==
    \A a \in AssetDefs :
        /\ sponsored[a] <= 1
        /\ sponsored[a] = 1 =>
               {e \in registry : e.asset = a}
                   = {[asset |-> a, erc20_code |-> TokenOf(a), sponsor |-> SponsorOf(a)]}
C2_RegisterStep ==
    \A t \in Tasks :
        Returns(t, "sponsor_register") =>
            LET a == DeriveAsset(args[t].erc20_code, args[t].sponsor_addr,
                                 args[t].aap_asset_policy).val
            IN  IF Registered(registry, a)
                THEN result'[t] = Err("RegistryConflict") /\ registry' = registry
                ELSE result'[t] = Ok(a) /\ Registered(registry', a)
C2_OncePerTriple == [] C2_FirstEntryStays /\ [][C2_RegisterStep]_vars

\* Two calls with the same triple have returned: one the definition, the
\* other the conflict.
C2_Witness ==
    \E t1, t2 \in Tasks :
        /\ t1 # t2
        /\ Returned(t1, "sponsor") /\ Returned(t2, "sponsor")
        /\ args[t1] = args[t2]
        /\ result[t1].ok /\ sponsored[result[t1].val] = 1
        /\ result[t2] = Err("RegistryConflict")

\* C3: once sponsor has returned a definition for a token code, the lookup
\* of that definition answers that token code, in every later state; the
\* lookup of a definition with no entry fails.
C3_LookupRoundTrip ==
    /\ \A a \in AssetDefs :
           /\ sponsored[a] > 0 => get_wrapped_erc20_code(registry, a) = Ok(TokenOf(a))
           /\ ~ Registered(registry, a) =>
                  get_wrapped_erc20_code(registry, a) = Err("UnregisteredAsset")
    /\ \A t \in Tasks :
           Returned(t, "sponsor") /\ result[t].ok =>
               get_wrapped_erc20_code(registry, result[t].val) = Ok(args[t].erc20_code)
    /\ \A t \in Tasks : \A i \in 1..Len(invoked[t]) :
           invoked[t][i].fn = "get_wrapped_erc20_code" /\ invoked[t][i].res.ok =>
               invoked[t][i].res = get_wrapped_erc20_code(registry, invoked[t][i].asset)

\* A wrap has looked up a definition that a sponsor call of this behaviour
\* registered for T2.
C3_Witness ==
    \E t \in Tasks :
        /\ args[t].op = "wrap"
        /\ Invoked(t, "get_wrapped_erc20_code")
        /\ sponsored[args[t].aap_asset] = 1
        /\ invoked[t][1].res = Ok("T2")

\* C4: wrap invokes wrap_erc20 only after both lookups succeeded: a wrap of
\* an unregistered asset returns the unregistered-asset error, a wrap for an
\* owner that cannot be resolved the unknown-owner error, neither invokes
\* wrap_erc20, and no step of wrap before wrap_erc20 changes the ERC20
\* balances or the staged records.
C4_NoDebitState ==
    \A t \in Tasks :
        args[t].op = "wrap" =>
            \A i \in 1..Len(invoked[t]) :
                invoked[t][i].fn # "wrap_erc20" /\ ~ invoked[t][i].res.ok =>
                    /\ ~ Invoked(t, "wrap_erc20")
                    /\ Returned(t, "wrap")
                    /\ result[t] = invoked[t][i].res
                    /\ result[t] = IF invoked[t][i].fn = "get_public_key"
                                   THEN Err("UnknownOwner")
                                   ELSE Err("UnregisteredAsset")
C4_NoDebitStep ==
    \A t \in Tasks :
        /\ pc[t] \in {"wrap_lock", "wrap_get_code", "wrap_get_key"} /\ pc'[t] # pc[t]
           => UNCHANGED <<erc20_balance, staged>>
        /\ pc[t] = "wrap_get_code" /\ pc'[t] # pc[t]
           /\ ~ Registered(registry, args[t].aap_asset)
           => pc'[t] = "idle" /\ result'[t] = Err("UnregisteredAsset")
        /\ pc[t] = "wrap_get_key" /\ pc'[t] # pc[t]
           /\ args[t].owner \notin KnownUsers
           => pc'[t] = "idle" /\ result'[t] = Err("UnknownOwner")
        /\ pc'[t] = "wrap_erc20" /\ pc'[t] # pc[t]
           => /\ Registered(registry, args[t].aap_asset)
              /\ args[t].owner \in KnownUsers
C4_WrapPreconditions == [] C4_NoDebitState /\ [][C4_NoDebitStep]_vars

\* One wrap has failed on an unregistered asset and another on an unknown
\* owner.
C4_Witness ==
    \E t1, t2 \in Tasks :
        /\ Returned(t1, "wrap") /\ result[t1] = Err("UnregisteredAsset")
        /\ Returned(t2, "wrap") /\ result[t2] = Err("UnknownOwner")
        /\ ~ Invoked(t1, "wrap_erc20") /\ ~ Invoked(t2, "wrap_erc20")
        /\ staged = <<>>


\* The lock is held, from its acquisition to the return, at these steps.
HoldingSteps == {"sponsor_new", "sponsor_register",
                 "wrap_get_code", "wrap_get_key", "wrap_erc20"}
\* A burn is between its first step and its return at these steps.
BurnUnderWay == {"burn_memos", "burn_submit"}
SameWallet(t1, t2) == t1 # t2 /\ WalletOf(t1) = WalletOf(t2)
\* Task t takes a step of its call that works on the wallet's state.
StateStep(t) == pc[t] # "idle" /\ pc'[t] # pc[t] /\ result'[t] # Panic

C6_NoStepDuringAny ==
    \A t1, t2 \in Tasks :
        SameWallet(t1, t2) /\ pc[t1] \in HoldingSteps \cup BurnUnderWay
        => ~ StateStep(t2)
C6_NoStepDuringSponsorWrap ==
    \A t1, t2 \in Tasks :
        SameWallet(t1, t2) /\ pc[t1] \in HoldingSteps => ~ StateStep(t2)
C6_OneAtATime ==
    \A t1, t2 \in Tasks :
        SameWallet(t1, t2) => ~ (pc[t1] \in HoldingSteps /\ pc[t2] \in HoldingSteps)
C6_WalletsIndependent ==
    \A t \in Tasks :
        /\ pc[t] \in {"sponsor_lock", "wrap_lock"}
        /\ \A t2 \in Tasks : SameWallet(t, t2) => pc[t2] \notin HoldingSteps
        => ENABLED (SponsorLock(t) \/ WrapLock(t))
C7_ReleasedOnReturn ==
    \A t \in Tasks : pc[t] \notin HoldingSteps => ~ Holds(t)
C7_WaiterAcquires ==
    \A t \in Tasks : (pc[t] \in {"sponsor_lock", "wrap_lock"}) ~> Holds(t)
C7_LockReleased == [] C7_ReleasedOnReturn /\ C7_WaiterAcquires

\* A sponsor has returned the policy error and a wrap has returned a lookup
\* error on one wallet, whose lock is free again.
C7_Witness ==
    \E t1, t2 \in Tasks :
        /\ SameWallet(t1, t2)
        /\ Returned(t1, "sponsor") /\ result[t1] = Err("CryptoError")
        /\ Returned(t2, "wrap") /\ result[t2] = Err("UnknownOwner")
        /\ lock[WalletOf(t1)] = NoTask


\* The submit calls task t's burn made, and the burns waiting on the ledger.
Submitted(t) == {i \in 1..Len(invoked[t]) : invoked[t][i].fn = "submit"}

\* C8: the note of every burn that reaches submit has 2 input nullifiers and
\* 2 output commitments, and the history entry submitted with it, and
\* recorded by the wallet, is of kind Burn.
C8_BurnShapeAndKind ==
    /\ \A t \in Tasks : \A i \in Submitted(t) :
           LET call == invoked[t][i] IN
           /\ Len(call.txn.xfr.inputs_nullifiers) = 2
           /\ Len(call.txn.xfr.output_commitments) = 2
           /\ call.txn_info.history.some
           /\ call.txn_info.history.val.kind = "Burn"
    /\ \A i \in 1..Len(ledger_txns) :
           /\ Len(ledger_txns[i].txn.xfr.inputs_nullifiers) = 2
           /\ Len(ledger_txns[i].txn.xfr.output_commitments) = 2
    /\ \A w \in Wallets : \A i \in 1..Len(txn_history[w]) :
           txn_history[w][i].kind = "Burn"

\* A burn has been submitted and has returned its receipt.
C8_Witness ==
    \E t \in Tasks :
        /\ Returned(t, "burn") /\ result[t].ok
        /\ Submitted(t) # {}
        /\ Len(txn_history[WalletOf(t)]) = 1

\* The build_transfer calls task t's burn made.
Built(t) == {i \in 1..Len(invoked[t]) : invoked[t][i].fn = "build_transfer"}

\* C9: the bound data burn gives to build_transfer is the marker followed by
\* the bytes of the destination: cut at the marker's length it gives back
\* the marker and the destination, and burns to different destinations have
\* different bound data.
C9_BoundDataRoundTrip ==
    /\ \A t \in Tasks : \A i \in Built(t) :
           LET data == invoked[t][i].bound_data
               n == Len(CAPE_BURN_MAGIC_BYTES)
           IN  /\ Len(data) = n + Len(as_bytes(args[t].dst_addr))
               /\ SubSeq(data, 1, n) = CAPE_BURN_MAGIC_BYTES
               /\ SubSeq(data, n + 1, Len(data)) = as_bytes(args[t].dst_addr)
    /\ \A t1, t2 \in Tasks : \A i \in Built(t1), j \in Built(t2) :
           args[t1].dst_addr # args[t2].dst_addr
           => invoked[t1][i].bound_data # invoked[t2][j].bound_data
    /\ \A i \in 1..Len(ledger_txns) :
           BurnDestination(ledger_txns[i].txn.xfr.aux_proof_bound_data) \in EthAddrs

\* Two burns to different destinations have been built, and one of them is
\* on the ledger with its destination in its note.
C9_Witness ==
    \E t1, t2 \in Tasks :
        /\ Built(t1) # {} /\ Built(t2) # {}
        /\ args[t1].dst_addr # args[t2].dst_addr
        /\ Len(ledger_txns) = 1
        /\ BurnDestination(ledger_txns[1].txn.xfr.aux_proof_bound_data)
               = args[t1].dst_addr

\* C10: the step in which wrap returns success debits the wrapped amount
\* from the source address's balance of the asset's token and leaves every
\* CAPE balance as it is; CAPE balances change only in the step that
\* validates a block, which credits every staged record to its owner.
C10_WrapStep ==
    \A t \in Tasks :
        Returns(t, "wrap_erc20") /\ result'[t].ok =>
            LET acct == <<args[t].src_addr,
                          EntryOf(registry, args[t].aap_asset).erc20_code>>
            IN  /\ erc20_balance'[acct] = erc20_balance[acct] - args[t].amount
                /\ \A a \in DOMAIN erc20_balance :
                       a # acct => erc20_balance'[a] = erc20_balance[a]
                /\ shielded' = shielded
                /\ Len(staged') = Len(staged) + 1
                /\ staged'[Len(staged')].amount = args[t].amount
                /\ staged'[Len(staged')].asset_def = args[t].aap_asset
C10_CreditStep ==
    shielded' # shielded =>
        /\ blocks' = blocks + 1
        /\ staged' = <<>>
        /\ \A k \in DOMAIN shielded :
               ledger_txns = <<>> => shielded'[k] = Credit(shielded, staged)[k]
C10_TwoPhaseWrap == [][C10_WrapStep /\ C10_CreditStep]_vars

\* A wrap of this behaviour has returned success: the token balance is
\* debited, the record is staged, and the owner's CAPE balance of the asset
\* is still zero.
C10_Witness ==
    \E t \in Tasks :
        /\ Returned(t, "wrap") /\ result[t].ok
        /\ Len(staged) = 1 /\ blocks = 0
        /\ sponsored[args[t].aap_asset] = 1
        /\ erc20_balance[<<args[t].src_addr, TokenOf(args[t].aap_asset)>>]
               = InitErc20 - args[t].amount
        /\ shielded[<<staged[1].pub_key, args[t].aap_asset>>] = 0


\* The steps of wrap and of burn.
WrapSteps == {"wrap_lock", "wrap_get_code", "wrap_get_key", "wrap_erc20"}
BurnSteps == {"burn_build", "burn_memos", "burn_submit"}
\* The entry sponsor asks for when it is called with task t's arguments.
SponsorEntry(t, asset) ==
    [asset |-> asset, erc20_code |-> args[t].erc20_code,
     sponsor |-> args[t].sponsor_addr]

\* C11: every entry of the registry stays in it, alone for its definition,
\* through every step; no step of wrap or of burn changes the registry; the
\* registry changes only in the step in which a sponsor returns a
\* definition, and that step adds exactly one entry, the returned
\* definition's.
C11_EntriesStay ==
    \A e \in registry :
        /\ e \in registry'
        /\ \A e2 \in registry' : e2.asset = e.asset => e2 = e
C11_WrapBurnFrame ==
    \A t \in Tasks :
        pc[t] \in WrapSteps \cup BurnSteps /\ pc'[t] # pc[t] => registry' = registry
C11_OnlySponsorAdds ==
    /\ registry' # registry =>
           \E t \in Tasks :
               /\ Returns(t, "sponsor_register") /\ result'[t].ok
               /\ registry' = registry \cup {SponsorEntry(t, result'[t].val)}
    /\ \A t \in Tasks :
           Returns(t, "sponsor_register") /\ result'[t].ok =>
               Cardinality(registry' \ registry) = 1
C11_RegistryImmutable ==
    [][C11_EntriesStay /\ C11_WrapBurnFrame /\ C11_OnlySponsorAdds]_vars

\* A sponsor has added its entry next to the one the registry began with,
\* and a wrap or a burn has run to its successful return.
C11_Witness ==
    \E t1, t2 \in Tasks :
        /\ Returned(t1, "sponsor") /\ result[t1].ok
        /\ Entry0 \in registry /\ Cardinality(registry) = 2
        /\ (Returned(t2, "wrap") \/ Returned(t2, "burn")) /\ result[t2].ok


\* How many times task t's current or last call invoked fn, and the last
\* invocation a log holds.
Count(t, fn) == Cardinality({i \in 1..Len(invoked[t]) : invoked[t][i].fn = fn})
Last(log) == log[Len(log)]

\* C12: one call invokes register_wrapped_asset, wrap_erc20 and submit at
\* most once each; the step that makes the backend call is the call's last,
\* and when the backend answers with an error the call returns that error.
C12_AtMostOnce ==
    \A t \in Tasks :
        /\ Count(t, "register_wrapped_asset") <= 1
        /\ Count(t, "wrap_erc20") <= 1
        /\ Count(t, "submit") <= 1
C12_ErrorForwarded ==
    \A t \in Tasks :
        /\ pc[t] = "sponsor_register" /\ pc'[t] # pc[t] =>
               /\ pc'[t] = "idle"
               /\ Last(invoked'[t]).fn = "register_wrapped_asset"
               /\ ~ Last(invoked'[t]).res.ok => result'[t] = Last(invoked'[t]).res
        /\ pc[t] = "wrap_erc20" /\ pc'[t] # pc[t] =>
               /\ pc'[t] = "idle"
               /\ Last(invoked'[t]).fn = "wrap_erc20"
               /\ result'[t] = Last(invoked'[t]).res
        /\ pc[t] = "burn_submit" /\ pc'[t] # pc[t] =>
               /\ pc'[t] = "idle"
               /\ invoked'[t] # invoked[t] =>
                      /\ Last(invoked'[t]).fn = "submit"
                      /\ result'[t] = submit(WalletOf(t), Last(invoked'[t]).txn,
                                             Last(invoked'[t]).txn_info).res
C12_NoRetry == [] C12_AtMostOnce /\ [][C12_ErrorForwarded]_vars

\* A sponsor has returned the registry's refusal and a wrap the backend's
\* refusal of an amount the source does not hold, each after one backend
\* call.
C12_Witness ==
    \E t1, t2 \in Tasks :
        /\ Returned(t1, "sponsor") /\ result[t1] = Err("RegistryConflict")
        /\ Count(t1, "register_wrapped_asset") = 1
        /\ Returned(t2, "wrap") /\ result[t2] = Err("InsufficientErc20")
        /\ Count(t2, "wrap_erc20") = 1


\* Task t's last call was abandoned.
IsAbandoned(t) == pc[t] = "idle" /\ ~ result[t].ok /\ result[t].err = "abandoned"

\* C13: the step that abandons a call changes nothing of the backend and
\* leaves the lock not held by the call's task; an abandoned call has made
\* no registry-changing, balance-changing or ledger-changing call; every
\* change of the registry is one whole entry, added in the step in which a
\* sponsor returns; every entry is a whole pairing of a definition with the
\* token code and sponsor it was derived from; and whoever holds a lock is
\* between its acquisition and its return.
C13_AbandonStep ==
    \A t \in Tasks :
        pc[t] # "idle" /\ ~ result'[t].ok /\ result'[t].err = "abandoned" =>
            /\ UNCHANGED <<registry, erc20_balance, staged, shielded, ledger_txns>>
            /\ lock'[WalletOf(t)] # t
            /\ \A w \in Wallets : lock[w] # t => lock'[w] = lock[w]
C13_WholeMutation ==
    registry' # registry =>
        \E t \in Tasks :
            /\ Returns(t, "sponsor_register") /\ result'[t].ok
            /\ registry' = registry \cup {SponsorEntry(t, result'[t].val)}
C13_NothingPartial ==
    /\ \A t \in Tasks :
           IsAbandoned(t) =>
               /\ ~ Holds(t)
               /\ Count(t, "register_wrapped_asset") = 0
               /\ Count(t, "wrap_erc20") = 0
               /\ Count(t, "submit") = 0
    /\ \A e \in registry :
           /\ e.asset \in AssetDefs
           /\ e.erc20_code = TokenOf(e.asset)
           /\ e.sponsor = SponsorOf(e.asset)
    /\ \A w \in Wallets :
           lock[w] # NoTask => pc[lock[w]] \in HoldingSteps
C13_AbandonLeavesNothing ==
    [] C13_NothingPartial /\ [][C13_AbandonStep /\ C13_WholeMutation]_vars

\* A sponsor was abandoned while it awaited the registration, holding the
\* lock; the registry is as it was, and another call on the same wallet
\* holds the lock now.
C13_Witness ==
    \E t1, t2 \in Tasks :
        /\ SameWallet(t1, t2)
        /\ IsAbandoned(t1) /\ result[t1].at = "sponsor_register"
        /\ ~ Registered(registry, DeriveAsset(args[t1].erc20_code,
                 args[t1].sponsor_addr, args[t1].aap_asset_policy).val)
        /\ Holds(t2)


\* The entries of the registry for token code c.
EntriesOfToken(c) == {e \in registry : e.erc20_code = c}

\* C14: a sponsor call whose (token code, sponsor address, policy) no entry
\* of the registry was made for succeeds, whatever other entries the token
\* code has, with a definition different from every registered one and
\* mapped to the token code; two successful sponsor calls for one token code
\* with different sponsor addresses have returned different definitions,
\* both looked up to that token code; and wrap looks up, and wraps under,
\* the token code of the asset definition it was given.
C14_SponsorStep ==
    \A t \in Tasks :
        /\ Returns(t, "sponsor_register")
        /\ ~ \E e \in EntriesOfToken(args[t].erc20_code) :
                 /\ e.sponsor = args[t].sponsor_addr
                 /\ e.asset.policy = args[t].aap_asset_policy
        => /\ result'[t].ok
           /\ \A e \in registry : e.asset # result'[t].val
           /\ get_wrapped_erc20_code(registry', result'[t].val)
                  = Ok(args[t].erc20_code)
C14_ManyDefinitions ==
    /\ \A t1, t2 \in Tasks :
           /\ Returned(t1, "sponsor") /\ result[t1].ok
           /\ Returned(t2, "sponsor") /\ result[t2].ok
           /\ args[t1].erc20_code = args[t2].erc20_code
           /\ args[t1].sponsor_addr # args[t2].sponsor_addr
           => /\ result[t1].val # result[t2].val
              /\ get_wrapped_erc20_code(registry, result[t1].val)
                     = Ok(args[t1].erc20_code)
              /\ get_wrapped_erc20_code(registry, result[t2].val)
                     = Ok(args[t1].erc20_code)
    /\ \A t \in Tasks : \A i \in 1..Len(invoked[t]) :
           LET call == invoked[t][i] IN
           /\ call.fn = "get_wrapped_erc20_code" => call.asset = args[t].aap_asset
           /\ call.fn = "wrap_erc20" =>
                  /\ call.ro.asset_def = args[t].aap_asset
                  /\ call.erc20_code = EntryOf(registry, args[t].aap_asset).erc20_code
C14_OneTokenManyAssets == [] C14_ManyDefinitions /\ [][C14_SponsorStep]_vars

\* Two sponsors of one token code and one policy, with different sponsor
\* addresses, have both returned a definition, and the token code has two
\* entries.
C14_Witness ==
    \E t1, t2 \in Tasks :
        /\ Returned(t1, "sponsor") /\ result[t1].ok
        /\ Returned(t2, "sponsor") /\ result[t2].ok
        /\ args[t1].erc20_code = args[t2].erc20_code
        /\ args[t1].aap_asset_policy = args[t2].aap_asset_policy
        /\ args[t1].sponsor_addr # args[t2].sponsor_addr
        /\ Cardinality(EntriesOfToken(args[t1].erc20_code)) = 2


\* The elements of a list.
Range(list) == {list[i] : i \in 1..Len(list)}

\* C15 as stated: approved_assets returns a list, and the list holds the
\* (definition, token code) pairing of every entry the registry has when it
\* returns.
C15_ListsPairings ==
    \A t \in Tasks :
        Returns(t, "approved_assets") =>
            /\ result'[t].ok
            /\ \A e \in registry : <<e.asset, e.erc20_code>> \in Range(result'[t].val)
C15_ApprovedAssetsLists == [][C15_ListsPairings]_vars

\* approved_assets has been called after a sponsor returned its definition,
\* and has panicked.
C15_Witness ==
    \E t1, t2 \in Tasks :
        /\ Returned(t1, "sponsor") /\ result[t1].ok
        /\ Registered(registry, result[t1].val)
        /\ Returned(t2, "approved_assets") /\ result[t2] = Panic


\* The functions task t's current or last call invoked, in order.
Log(t) == [i \in 1..Len(invoked[t]) |-> invoked[t][i].fn]
IsPrefix(a, b) == Len(a) <= Len(b) /\ a = SubSeq(b, 1, Len(a))

\* C16: a burn invokes build_transfer, generate_memos and submit in that
\* order, each after the one before it succeeded; when build_transfer or
\* generate_memos fails the burn returns the error and has not invoked
\* submit; a burn that returns a receipt has invoked all three; and the step
\* that finds no fee output in the built transfer, or a note that has not 2
\* input nullifiers and 2 output commitments, panics without invoking
\* anything and without changing the ledger or the wallet's records.
C16_Order ==
    \A t \in Tasks :
        args[t].op = "burn" =>
            /\ IsPrefix(Log(t), <<"build_transfer", "generate_memos", "submit">>)
            /\ \A i \in 1..Len(invoked[t]) :
                   invoked[t][i].fn # "submit" /\ ~ invoked[t][i].res =>
                       /\ i = Len(invoked[t])
                       /\ Returned(t, "burn")
                       /\ result[t] = IF invoked[t][i].fn = "build_transfer"
                                      THEN Err("InsufficientBalance")
                                      ELSE Err("CryptoError")
            /\ Returned(t, "burn") /\ result[t].ok =>
                   /\ Log(t) = <<"build_transfer", "generate_memos", "submit">>
                   /\ \A i \in 1..3 : invoked[t][i].res
C16_Aborts ==
    \A t \in Tasks :
        LET aborts == /\ pc'[t] = "idle" /\ result'[t] = Panic
                      /\ invoked'[t] = invoked[t]
                      /\ UNCHANGED <<ledger_txns, on_hold, txn_history>>
        IN  /\ pc[t] = "burn_memos" /\ pc'[t] # pc[t]
               /\ ~ local[t].xfr_info.fee_output.some
               => aborts
            /\ pc[t] = "burn_submit" /\ pc'[t] # pc[t]
               /\ ~ (/\ Len(local[t].xfr_info.note.inputs_nullifiers) = 2
                     /\ Len(local[t].xfr_info.note.output_commitments) = 2)
               => aborts
            /\ pc[t] \in BurnSteps /\ pc'[t] = "idle" /\ result'[t].ok
               => /\ pc[t] = "burn_submit"
                  /\ local[t].xfr_info.fee_output.some
                  /\ Len(local[t].xfr_info.note.inputs_nullifiers) = 2
                  /\ Len(local[t].xfr_info.note.output_commitments) = 2
C16_BurnStepsInOrder == [] C16_Order /\ [][C16_Aborts]_vars

\* One burn has panicked on the shape of its note, after its memos and
\* before submit, and another has returned the error of generate_memos,
\* also without submit.
C16_Witness ==
    \E t1, t2 \in Tasks :
        /\ Returned(t1, "burn") /\ result[t1] = Panic
        /\ Log(t1) = <<"build_transfer", "generate_memos">>
        /\ Returned(t2, "burn") /\ result[t2] = Err("CryptoError")
        /\ Log(t2) = <<"build_transfer", "generate_memos">>
        /\ ledger_txns = <<>>


\* The generate_memos calls task t's burn made.
Memoed(t) == {i \in 1..Len(invoked[t]) : invoked[t][i].fn = "generate_memos"}

\* C17 as stated: every burn, whatever its outcome, has invoked
\* generate_memos exactly once.
C17_EveryBurnOneMemoSet ==
    \A t \in Tasks : Returned(t, "burn") => Count(t, "generate_memos") = 1

\* C17 amended: a burn invokes generate_memos at most once: exactly once
\* when its built transfer has a fee output, not at all when build_transfer
\* failed or the fee output is missing.  The record list is the fee output
\* of the built transfer alone, no output of the transfer is in it, and the
\* transaction info submitted carries the one memo of that record.
C17_MemoState ==
    \A t \in Tasks :
        args[t].op = "burn" =>
            /\ Count(t, "generate_memos") <= 1
            /\ pc[t] = "burn_submit" \/ Submitted(t) # {} =>
                   Count(t, "generate_memos") = 1
            /\ \A i \in Memoed(t) : Len(invoked[t][i].records) = 1
            /\ \A i \in Memoed(t), j \in Submitted(t) :
                   /\ Len(invoked[t][j].txn_info.memos) = 1
                   /\ invoked[t][j].txn_info.memos
                          = <<<<"memo", invoked[t][i].records[1]>>>>
                   /\ \A k \in 1..Len(invoked[t][j].txn_info.outputs) :
                          invoked[t][j].txn_info.outputs[k]
                              \notin Range(invoked[t][i].records)
C17_MemoStep ==
    \A t \in Tasks :
        /\ pc[t] = "burn_build" /\ pc'[t] = "idle" =>
               Memoed(t)' = {}
        /\ pc[t] = "burn_memos" /\ pc'[t] # pc[t] =>
               IF local[t].xfr_info.fee_output.some
               THEN /\ Last(invoked'[t]).fn = "generate_memos"
                    /\ Last(invoked'[t]).records
                           = <<local[t].xfr_info.fee_output.val>>
                    /\ \A k \in 1..Len(local[t].xfr_info.outputs) :
                           local[t].xfr_info.outputs[k]
                               \notin Range(Last(invoked'[t]).records)
               ELSE Memoed(t)' = {}
C17_OneMemoSetForFeeOutput == [] C17_MemoState /\ [][C17_MemoStep]_vars

\* One burn has returned its receipt with the memo of its fee output, and
\* another has returned the error of build_transfer without any memo.
C17_Witness ==
    \E t1, t2 \in Tasks :
        /\ Returned(t1, "burn") /\ result[t1].ok
        /\ Count(t1, "generate_memos") = 1 /\ Submitted(t1) # {}
        /\ Returned(t2, "burn") /\ result[t2] = Err("InsufficientBalance")
        /\ Count(t2, "generate_memos") = 0


\* C18: the transition a burn submits is tagged as a burn and carries the
\* note built for this call, whose bound data names this call's
\* destination, with the record opening that is first among the built
\* transfer's outputs; that opening's amount is the amount asked to burn,
\* its asset code the asset code asked for, and it is not the fee output,
\* the record the memos were generated for; a submitted transition reaches
\* the ledger as it was submitted.
C18_Submitted ==
    \A t \in Tasks : \A j \in Submitted(t) :
        LET call == invoked[t][j] IN
        /\ call.txn.kind = "Burn"
        /\ call.txn.xfr.aux_proof_bound_data = BoundData(args[t].dst_addr)
        /\ call.txn.ro = call.txn_info.outputs[1]
        /\ call.txn.ro.amount = args[t].amount
        /\ call.txn.ro.asset_def.code = args[t].aap_asset
        /\ \A i \in Memoed(t) : call.txn.ro \notin Range(invoked[t][i].records)
C18_SubmitStep ==
    \A t \in Tasks :
        pc[t] = "burn_submit" /\ pc'[t] # pc[t] /\ result'[t] # Panic =>
            LET txn == Last(invoked'[t]).txn IN
            /\ txn = [kind |-> "Burn", xfr |-> local[t].xfr_info.note,
                      ro |-> local[t].xfr_info.outputs[1]]
            /\ txn.ro # local[t].xfr_info.fee_output.val
            /\ result'[t].ok =>
                   /\ result'[t].val.txn = txn
                   /\ Len(ledger_txns') = Len(ledger_txns) + 1
                   /\ Last(ledger_txns').txn = txn
C18_BurnTransition == [] C18_Submitted /\ [][C18_SubmitStep]_vars

\* A burn has returned its receipt and its transition waits on the ledger:
\* a burn of the amount and asset code asked for.
C18_Witness ==
    \E t \in Tasks :
        /\ Returned(t, "burn") /\ result[t].ok
        /\ Len(ledger_txns) = 1
        /\ ledger_txns[1].txn = result[t].val.txn
        /\ ledger_txns[1].txn.kind = "Burn"
        /\ ledger_txns[1].txn.ro.amount = args[t].amount
        /\ ledger_txns[1].txn.ro.asset_def.code = args[t].aap_asset


\* C19: a sponsor call with an invalid policy returns the cryptographic
\* error from the step that constructs the definition, without invoking
\* register_wrapped_asset and with the registry as it was; and the step in
\* which sponsor returns a definition leaves the registry holding that
\* definition's entry with the call's token code and sponsor address, as
\* does every later state.
C19_PolicyStep ==
    \A t \in Tasks :
        /\ pc[t] = "sponsor_new" /\ pc'[t] # pc[t]
           /\ ~ AssetDefinition_new(
                    new_foreign(erc20_asset_description(args[t].erc20_code,
                                                        args[t].sponsor_addr)),
                    args[t].aap_asset_policy).ok
           => /\ pc'[t] = "idle" /\ result'[t] = Err("CryptoError")
              /\ invoked'[t] = <<>>
              /\ registry' = registry
        /\ pc[t] \in {"sponsor_lock", "sponsor_new", "sponsor_register"}
           /\ pc'[t] = "idle" /\ result'[t].ok
           => /\ pc[t] = "sponsor_register"
              /\ SponsorEntry(t, result'[t].val) \in registry'
C19_PolicyState ==
    \A t \in Tasks :
        Returned(t, "sponsor") =>
            /\ args[t].aap_asset_policy = "Pbad" =>
                   /\ result[t] = Err("CryptoError")
                   /\ Count(t, "register_wrapped_asset") = 0
            /\ result[t].ok =>
                   /\ SponsorEntry(t, result[t].val) \in registry
                   /\ result[t].val.policy = args[t].aap_asset_policy
C19_InvalidPolicy == [] C19_PolicyState /\ [][C19_PolicyStep]_vars

\* A sponsor with the invalid policy has returned the cryptographic error
\* and left the registry empty; another has returned its definition, which
\* the registry holds.
C19_Witness ==
    \E t1, t2 \in Tasks :
        /\ Returned(t1, "sponsor") /\ result[t1] = Err("CryptoError")
        /\ Count(t1, "register_wrapped_asset") = 0
        /\ Returned(t2, "sponsor") /\ result[t2].ok
        /\ registry = {SponsorEntry(t2, result[t2].val)}


\* The calls a wrap makes, in order.
WrapCalls == <<"get_wrapped_erc20_code", "get_public_key", "wrap_erc20">>

\* C20: a wrap looks up the token code, then the public key, then invokes
\* wrap_erc20, each after the one before it succeeded.  A wrap that returned
\* success has made each call once: wrap_erc20 with the token code the
\* lookup of the target asset gave, which is the one the registry maps the
\* asset to, with the source address of the call, and with a record opening
\* of the call's amount and target asset, owned by the key the lookup of the
\* owner gave, and unfrozen.
C20_Order ==
    \A t \in Tasks : args[t].op = "wrap" => IsPrefix(Log(t), WrapCalls)
C20_Arguments ==
    \A t \in Tasks :
        Returned(t, "wrap") /\ result[t].ok =>
            /\ Log(t) = WrapCalls
            /\ LET code == invoked[t][1]
                   key == invoked[t][2]
                   wrap == invoked[t][3]
               IN  /\ code.asset = args[t].aap_asset /\ code.res.ok
                   /\ key.owner = args[t].owner /\ key.res.ok
                   /\ wrap.erc20_code = code.res.val
                   /\ wrap.erc20_code = EntryOf(registry, args[t].aap_asset).erc20_code
                   /\ wrap.src_addr = args[t].src_addr
                   /\ wrap.ro.amount = args[t].amount
                   /\ wrap.ro.asset_def = args[t].aap_asset
                   /\ wrap.ro.pub_key = key.res.val
                   /\ wrap.ro.pub_key = get_public_key(args[t].owner).val
                   /\ wrap.ro.freeze_flag = "Unfrozen"
C20_WrapStep ==
    \A t \in Tasks :
        Returns(t, "wrap_erc20") =>
            /\ Last(invoked'[t]).fn = "wrap_erc20"
            /\ Ok(Last(invoked'[t]).erc20_code)
                   = get_wrapped_erc20_code(registry, args[t].aap_asset)
            /\ result'[t].ok => Last(staged') = Last(invoked'[t]).ro
C20_WrapCall == [] (C20_Order /\ C20_Arguments) /\ [][C20_WrapStep]_vars

\* A wrap of an asset that a sponsor of this behaviour registered for T2
\* has returned success, and its record is staged.
C20_Witness ==
    \E t \in Tasks :
        /\ Returned(t, "wrap") /\ result[t].ok
        /\ Log(t) = WrapCalls
        /\ invoked[t][3].erc20_code = "T2"
        /\ staged = <<invoked[t][3].ro>>

=============================================================================
